---- MODULE Spec2Model ----
(***************************************************************************)
(* Model of the customer-service tool-call mediation layer                 *)
(* (customer_service/shared_libraries/callbacks.py), the record store      *)
(* (customer_service/database/database.py) and the tools the callbacks     *)
(* guard (customer_service/tools/*.py).                                    *)
(*                                                                         *)
(* Python values are tagged records, one field name per Python type:       *)
(*   [s |-> "text"]  str          [n |-> 3]      int / float (cents)       *)
(*   [b |-> TRUE]    bool         [none |-> TRUE] None                     *)
(*   [l |-> <<..>>]  list         [d |-> f]      dict (f: key -> value)    *)
(*   [m |-> "AddressData", f |-> fields]   a pydantic model instance       *)
(*   [gen |-> f]     a generator object built over the items of dict f     *)
(* A call outcome is [ok |-> value] or [raise |-> "ExceptionName"].        *)
(***************************************************************************)
EXTENDS Integers, Sequences, FiniteSets, TLC

VARIABLES
    store,      \* the SQLite record store (committed contents)
    state,      \* session id -> session state mapping (key -> value)
    pending,    \* the tool call between before_tool and the tool's execution
    last,       \* the last completed callback / tool invocation and its outcome
    now,        \* time.time(), in whole seconds
    fn          \* the last application of a pure helper: [op, arg, res]

vars == <<store, state, pending, last, now, fn>>

----------------------------------------------------------------------------
(* Python values *)

S(x) == [s |-> x]
N(x) == [n |-> x]
B(x) == [b |-> x]
L(x) == [l |-> x]
D(x) == [d |-> x]
NoneV == [none |-> TRUE]
Model(name, fields) == [m |-> name, f |-> fields]

IsStr(v) == "s" \in DOMAIN v
IsList(v) == "l" \in DOMAIN v
IsDict(v) == "d" \in DOMAIN v
IsModel(v) == "m" \in DOMAIN v
IsNone(v) == "none" \in DOMAIN v
IsGen(v) == "gen" \in DOMAIN v

Ok(v) == [ok |-> v]
Raise(e) == [raise |-> e]
IsOk(r) == "ok" \in DOMAIN r
IsRaise(r) == "raise" \in DOMAIN r

\* A dict with no keys.
EmptyMap == [k \in {} |-> NoneV]

\* dict item assignment f[k] = v
Put(f, k, v) == [x \in DOMAIN f \cup {k} |-> IF x = k THEN v ELSE f[x]]

\* str.lower(), character by character
LowerChar(c) ==
    CASE c = "A" -> "a" [] c = "B" -> "b" [] c = "C" -> "c" [] c = "D" -> "d"
      [] c = "E" -> "e" [] c = "F" -> "f" [] c = "G" -> "g" [] c = "H" -> "h"
      [] c = "I" -> "i" [] c = "J" -> "j" [] c = "K" -> "k" [] c = "L" -> "l"
      [] c = "M" -> "m" [] c = "N" -> "n" [] c = "O" -> "o" [] c = "P" -> "p"
      [] c = "Q" -> "q" [] c = "R" -> "r" [] c = "S" -> "s" [] c = "T" -> "t"
      [] c = "U" -> "u" [] c = "V" -> "v" [] c = "W" -> "w" [] c = "X" -> "x"
      [] c = "Y" -> "y" [] c = "Z" -> "z" [] OTHER -> c

RECURSIVE LowerFrom(_, _)
LowerFrom(x, i) ==
    IF i > Len(x) THEN "" ELSE LowerChar(SubSeq(x, i, i)) \o LowerFrom(x, i + 1)

str_lower(x) == LowerFrom(x, 1)

\* lowercase_value: a dict yields a generator expression (never evaluated
\* here, and not a dict); a str is lowercased; a list is rebuilt from the
\* lowercased elements; anything else is returned as it is.
RECURSIVE lowercase_value(_)
lowercase_value(value) ==
    IF IsDict(value) THEN [gen |-> value.d]
    ELSE IF IsStr(value) THEN S(str_lower(value.s))
    ELSE IF IsList(value)
         THEN L([i \in DOMAIN value.l |-> lowercase_value(value.l[i])])
    ELSE value

----------------------------------------------------------------------------
(* The record store: database.py *)

DEFAULT_CUSTOMER_ID == "cust-1"

\* A row is the dict that dict_factory builds: column name -> value, with
\* exactly the columns of its table. Money is in cents. Columns no modelled
\* tool reads (profile, loyalty, state, country, brand details) are left out.
CustomerRow(id, email) ==
    [id |-> S(id), email |-> S(email), locked |-> B(FALSE), deleted |-> B(FALSE)]

AddressRow(id, customer_id, line1, line2, city, postal_code) ==
    [id |-> S(id), customer_id |-> S(customer_id), line1 |-> S(line1),
     line2 |-> line2, city |-> S(city), postal_code |-> S(postal_code)]

PaymentMethodRow(id, customer_id, brand, last4, exp_month, exp_year) ==
    [id |-> S(id), customer_id |-> S(customer_id), brand |-> S(brand),
     last4 |-> S(last4), exp_month |-> N(exp_month), exp_year |-> N(exp_year),
     token |-> NoneV]

OrderRow(id, customer_id, date, total, status) ==
    [id |-> S(id), customer_id |-> S(customer_id), date |-> S(date),
     total |-> N(total), status |-> S(status)]

\* populate_sample_data
SeedCustomers ==
    { CustomerRow(DEFAULT_CUSTOMER_ID, "alice@example.com"),
      CustomerRow("cust-2", "bob@example.com") }

SeedAddresses ==
    { AddressRow("addr-1", "cust-1", "123 Garden Lane", NoneV, "Greenfield", "90210"),
      AddressRow("addr-2", "cust-2", "456 Oak Street", S("Apt 12B"), "Springfield",
                 "10001") }

SeedPaymentMethods ==
    { PaymentMethodRow("pm-1", "cust-1", "Visa", "4242", 12, 2026),
      PaymentMethodRow("pm-2", "cust-2", "Mastercard", "5555", 8, 2027) }

SeedOrders ==
    { OrderRow("ord-1", "cust-1", "2024-06-01", 3943, "delivered"),
      OrderRow("ord-2", "cust-2", "2024-05-15", 4793, "delivered"),
      OrderRow("ord-3", "cust-2", "2024-07-10", 7692, "shipped"),
      OrderRow("ord-4", "cust-1", "2024-10-25", 6293, "processing") }

\* products: id -> unit price in cents
SeedProducts ==
    [p \in {"123", "2o972", "456", "457", "789", "101", "102"} |->
        CASE p = "123" -> 2598 [] p = "2o972" -> 1345 [] p = "456" -> 3299
          [] p = "457" -> 1494 [] p = "789" -> 2999 [] p = "101" -> 1599
          [] p = "102" -> 3094]

\* order_items in insertion (rowid) order
SeedOrderItems ==
    << [order_id |-> S("ord-1"), product_id |-> S("123"), quantity |-> N(1)],
       [order_id |-> S("ord-1"), product_id |-> S("2o972"), quantity |-> N(1)],
       [order_id |-> S("ord-2"), product_id |-> S("456"), quantity |-> N(1)],
       [order_id |-> S("ord-2"), product_id |-> S("457"), quantity |-> N(1)],
       [order_id |-> S("ord-3"), product_id |-> S("789"), quantity |-> N(1)],
       [order_id |-> S("ord-3"), product_id |-> S("101"), quantity |-> N(1)],
       [order_id |-> S("ord-3"), product_id |-> S("102"), quantity |-> N(1)],
       [order_id |-> S("ord-4"), product_id |-> S("456"), quantity |-> N(1)],
       [order_id |-> S("ord-4"), product_id |-> S("789"), quantity |-> N(1)] >>

\* init_db followed by populate_sample_data (agent.py runs both at import).
\* products and order_items are written by no tool and stay SeedProducts and
\* SeedOrderItems.
\* uuids counts the uuid4() values drawn for new rows, so that each is fresh.
SeedStore ==
    [customers |-> SeedCustomers, addresses |-> SeedAddresses,
     payment_methods |-> SeedPaymentMethods, orders |-> SeedOrders,
     uuids |-> 0]

\* cursor.fetchone(): a row, or None
FetchOne(rows) == IF rows = {} THEN NoneV ELSE CHOOSE r \in rows : TRUE

\* SELECT ... FROM customers WHERE id = ? AND deleted = FALSE
LiveCustomer(db, customer_id) ==
    { c \in db.customers : c.id = customer_id /\ c.deleted = B(FALSE) }

\* SELECT * FROM orders WHERE id = ?
OrderById(db, order_id) == { o \in db.orders : o.id = order_id }

\* SELECT * FROM orders WHERE customer_id = ?
OrdersOf(db, customer_id) == { o \in db.orders : o.customer_id = customer_id }

----------------------------------------------------------------------------
(* Typed records: datamodels/*.py *)

\* Field table of a pydantic model: type tag, required, default, and whether a
\* mode='before' validator turns None into the default.
FieldSpec(t, req, def, nonefix) ==
    [t |-> t, req |-> req, def |-> def, nonefix |-> nonefix]

Req(t) == FieldSpec(t, TRUE, NoneV, FALSE)
Opt(t, def) == FieldSpec(t, FALSE, def, FALSE)

Schema(cls) ==
    CASE cls = "AddressData" ->
            [line1 |-> Req("s"),
             line2 |-> FieldSpec("s", FALSE, S(""), TRUE),
             city |-> FieldSpec("s", FALSE, S(""), TRUE),
             postal_code |-> FieldSpec("s", TRUE, S(""), TRUE)]
      [] cls = "Address" ->
            [id |-> Req("s"),
             line1 |-> Req("s"),
             line2 |-> FieldSpec("s", FALSE, S(""), TRUE),
             city |-> FieldSpec("s", FALSE, S(""), TRUE),
             postal_code |-> FieldSpec("s", TRUE, S(""), TRUE)]
      [] cls = "OrderItem" ->
            [product_id |-> Req("s"), quantity |-> Req("n")]
      [] cls = "CustomerRecord" ->
            [id |-> Req("s"), email |-> Req("s"),
             addresses |-> Opt("l", L(<<>>)),
             locked |-> Opt("b", B(FALSE)), deleted |-> Opt("b", B(FALSE))]
      [] cls = "Order" ->
            [id |-> Req("s"), date_ordered |-> Req("s"),
             date_delivered |-> FieldSpec("s", FALSE, S(""), TRUE),
             total |-> Req("n"), status |-> Opt("s", S("processing")),
             items |-> Opt("l", L(<<>>))]
      [] cls = "Invoice" ->
            [invoice_id |-> Req("s"), order_id |-> Req("s"), date |-> Req("s"),
             items |-> Req("l"), subtotal |-> Req("n"), tax |-> Req("n"),
             shipping |-> Req("n"), total |-> Req("n"), download_url |-> Req("s")]
      [] cls = "RefundResult" ->
            [success |-> Req("b"), refund_id |-> Req("s"), amount |-> Req("n"),
             estimated_arrival |-> Req("s"), method |-> Req("s")]
      [] cls = "OrderCancellationResult" ->
            [success |-> Req("b"), message |-> Req("s"),
             refund_amount |-> Req("n"), refund_eta |-> Req("s")]
      [] cls = "OrderModificationResult" ->
            [success |-> Req("b"), message |-> Req("s"), updated_total |-> Req("n")]
      [] cls = "AddressUpdateResult" ->
            [success |-> Req("b"), message |-> Req("s")]
      [] cls = "PaymentMethod" ->
            [id |-> Req("s"), brand |-> Req("s"), last4 |-> Req("s"),
             exp_month |-> Req("n"), exp_year |-> Req("n"),
             token |-> FieldSpec("s", FALSE, S(""), TRUE)]
      [] cls = "PaymentMethodResult" ->
            [success |-> Req("b"), message |-> Req("s"),
             payment_method_id |-> Opt("s", S(""))]
      [] cls = "DisputeResult" ->
            [success |-> Req("b"), dispute_id |-> Req("s"), status |-> Req("s"),
             expected_resolution_date |-> Req("s")]
      [] cls = "PromoCodeResult" ->
            [success |-> Req("b"), discount_amount |-> Req("n"),
             new_total |-> Req("n"), message |-> Req("s")]

\* cls(**mapping): pydantic validation. Unknown keys are ignored, a missing
\* optional field takes its default, a missing required field or a value of
\* the wrong type raises pydantic's ValidationError.
FieldValue(spec, mapping, k) ==
    IF k \notin DOMAIN mapping THEN spec.def
    ELSE IF spec.nonefix /\ IsNone(mapping[k]) THEN spec.def
    ELSE mapping[k]

FieldValid(spec, mapping, k) ==
    /\ k \in DOMAIN mapping \/ ~spec.req
    /\ spec.t \in DOMAIN FieldValue(spec, mapping, k)

Validate(sch, cls, mapping) ==
    IF \A k \in DOMAIN sch : FieldValid(sch[k], mapping, k)
    THEN Ok(Model(cls, [k \in DOMAIN sch |-> FieldValue(sch[k], mapping, k)]))
    ELSE Raise("pydantic.ValidationError")

Construct(cls, mapping) == Validate(Schema(cls), cls, mapping)

\* A JSON text is [json |-> mapping] when it parses to an object and
\* [text |-> "..."] when it does not parse.
model_dump_json(record) == [json |-> record.f]

model_validate_json(cls, text) ==
    IF "json" \in DOMAIN text THEN Construct(cls, text.json)
    ELSE Raise("pydantic.ValidationError")

\* A set of rows as a list, in some fixed order (the cursor's row order).
RECURSIVE SetToSeq(_)
SetToSeq(rows) ==
    IF rows = {} THEN <<>>
    ELSE LET r == CHOOSE x \in rows : TRUE IN <<r>> \o SetToSeq(rows \ {r})

AllOk(outcomes) == \A i \in DOMAIN outcomes : IsOk(outcomes[i])

\* The first exception raised while the list is built, left to right.
FirstRaise(outcomes) ==
    outcomes[CHOOSE i \in DOMAIN outcomes :
                /\ IsRaise(outcomes[i])
                /\ \A j \in DOMAIN outcomes : j < i => IsOk(outcomes[j])]

----------------------------------------------------------------------------
(* Tools known to the agents: sub_agents/*.py TOOLS, plus the framework's   *)
(* transfer_to_agent. A hint is the declared type of a parameter:           *)
(*   [k |-> "plain"]                    str, bool, float, dict, ...         *)
(*   [k |-> "model", cls |-> C]         a pydantic model class C            *)
(*   [k |-> "list", cls |-> C]          list[C], C a pydantic model class   *)

Plain == [k |-> "plain", cls |-> ""]
ModelHint(cls) == [k |-> "model", cls |-> cls]
ListHint(cls) == [k |-> "list", cls |-> cls]

COORDINATOR == "customer_service_coordinator"

ToolNames ==
    { "transfer_to_agent", "get_invoice", "process_refund", "cancel_order",
      "get_order_details", "delete_account", "delete_address", "add_address",
      "list_addresses", "change_delivery_address", "modify_order_list" }

\* get_type_hints(tool.func), without the return annotation
TypeHints(name) ==
    CASE name = "transfer_to_agent" -> [agent_name |-> Plain]
      [] name = "get_invoice" -> [order_id |-> Plain]
      [] name = "process_refund" ->
            [order_id |-> Plain, amount |-> Plain, reason |-> Plain]
      [] name = "cancel_order" -> [order_id |-> Plain, reason |-> Plain]
      [] name = "get_order_details" -> [customer_id |-> Plain, order_id |-> Plain]
      [] name = "delete_account" -> [customer_id |-> Plain, confirmation |-> Plain]
      [] name = "delete_address" -> [customer_id |-> Plain, address_id |-> Plain]
      [] name = "add_address" ->
            [customer_id |-> Plain, address_data |-> ModelHint("AddressData")]
      [] name = "list_addresses" -> [customer_id |-> Plain]
      [] name = "change_delivery_address" ->
            [order_id |-> Plain, new_address |-> Plain]
      [] name = "modify_order_list" ->
            [order_id |-> Plain, updated_items |-> ListHint("OrderItem")]
      [] name = "update_address" ->
            [customer_id |-> Plain, address_id |-> Plain,
             address_data |-> ModelHint("AddressData")]
      [] name = "unlock_account" -> [customer_id |-> Plain]
      [] name = "update_email" -> [customer_id |-> Plain, new_email |-> Plain]
      [] name = "remove_payment_method" ->
            [customer_id |-> Plain, payment_method_id |-> Plain]

\* Parameters with a default value in the signature.
Defaults(name) ==
    CASE name = "process_refund" -> [amount |-> NoneV, reason |-> S("")]
      [] OTHER -> EmptyMap

Tool(name) == [name |-> name, has_func |-> TRUE, hints |-> TypeHints(name)]

----------------------------------------------------------------------------
(* callbacks.py *)

\* Variant: the failed construction is not caught.
OrKeep_propagate(made, param_value) == made

\* try: value = made ... except Exception: value = param_value
OrKeep(made, param_value) == IF IsOk(made) THEN made.ok ELSE param_value

\* One try block around the whole loop over the list: a single failing
\* element leaves the whole list unconverted.
AllOrKeep(made, param_value) ==
    IF AllOk(made) THEN L([i \in DOMAIN made |-> made[i].ok]) ELSE param_value

ConvertItem(cls, item) == IF IsDict(item) THEN Construct(cls, item.d) ELSE Ok(item)

\* Variant: nothing is converted.
ConvertValue_raw(param_type, param_value) == param_value

\* One argument of convert_args_to_pydantic's loop.
ConvertValue(param_type, param_value) ==
    IF IsDict(param_value) /\ param_type.k = "model"
    THEN OrKeep(Construct(param_type.cls, param_value.d), param_value)
    ELSE IF IsList(param_value) /\ param_value.l # <<>> /\ param_type.k = "list"
    THEN AllOrKeep([i \in DOMAIN param_value.l |->
                      ConvertItem(param_type.cls, param_value.l[i])],
                   param_value)
    ELSE param_value

\* Variant: a typed record is turned back into a mapping.
ConvertParam_dump(hints, param_name, param_value) ==
    IF IsModel(param_value) THEN D(param_value.f) ELSE param_value

ConvertParam(hints, param_name, param_value) ==
    IF param_name \notin DOMAIN hints THEN param_value
    ELSE ConvertValue(hints[param_name], param_value)

\* Variant: the tool's function is not looked for.
convert_args_to_pydantic_nofunc(tool, args) ==
    [param_name \in DOMAIN args |->
        ConvertParam(tool.hints, param_name, args[param_name])]

convert_args_to_pydantic(tool, args) ==
    IF ~tool.has_func THEN args
    ELSE [param_name \in DOMAIN args |->
            ConvertParam(tool.hints, param_name, args[param_name])]

NoProfileMsg == "No customer profile selected. Please select a profile."
UnparsedMsg ==
    "Customer profile couldn't be parsed. Please reload the customer data. "
WrongCustomerMsg(customer_id, bound_id) ==
    "You cannot use the tool with customer_id " \o customer_id
        \o ", only for " \o bound_id \o "."

\* Variant: the ids compared without regard to case.
CompareCustomer_anycase(customer_id, c) ==
    IF IsRaise(c) THEN c
    ELSE IF str_lower(customer_id.s) = str_lower(c.ok.f.id.s)
         THEN Ok([valid |-> TRUE, err |-> NoneV])
         ELSE Ok([valid |-> FALSE,
                  err |-> S(WrongCustomerMsg(customer_id.s, c.ok.f.id.s))])

\* The body of validate_customer_id's try block, c being the outcome of
\* CustomerRecord.model_validate_json. The except clause names jsonschema's
\* ValidationError; the exception model_validate_json raises is pydantic's,
\* which it does not catch.
CompareCustomer(customer_id, c) ==
    IF IsRaise(c)
    THEN IF c.raise = "jsonschema.ValidationError"
         THEN Ok([valid |-> FALSE, err |-> S(UnparsedMsg)])
         ELSE c
    ELSE IF customer_id = c.ok.f.id
         THEN Ok([valid |-> TRUE, err |-> NoneV])
         ELSE Ok([valid |-> FALSE,
                  err |-> S(WrongCustomerMsg(customer_id.s, c.ok.f.id.s))])

\* Variant: the profile read without the test that it is there.
validate_customer_id_unguarded(customer_id, session_state) ==
    IF "customer_profile" \notin DOMAIN session_state
    THEN Raise("KeyError")
    ELSE CompareCustomer(customer_id,
            model_validate_json("CustomerRecord", session_state["customer_profile"]))

\* validate_customer_id: Ok of (valid, message), or the exception that
\* leaves it.
validate_customer_id(customer_id, session_state) ==
    IF "customer_profile" \notin DOMAIN session_state
    THEN Ok([valid |-> FALSE, err |-> S(NoProfileMsg)])
    ELSE CompareCustomer(customer_id,
            model_validate_json("CustomerRecord", session_state["customer_profile"]))

\* args.get(key)
Get(args, key) == IF key \in DOMAIN args THEN args[key] ELSE NoneV

\* Variant: the check's verdict is not looked at.
GuardTransfer_proceed(tool, args, agent_name, checked) ==
    [args |-> args, result |-> Ok(NoneV)]

\* Variant: the transfer target is never rewritten.
GuardTransfer_keep(tool, args, agent_name, checked) ==
    IF IsRaise(checked) THEN [args |-> args, result |-> checked]
    ELSE IF ~checked.ok.valid THEN [args |-> args, result |-> Ok(checked.ok.err)]
    ELSE [args |-> args, result |-> Ok(NoneV)]

\* before_tool from the tenant check's outcome on: the early return of the
\* message, then the transfer guard.
GuardTransfer(tool, args, agent_name, checked) ==
    IF IsRaise(checked) THEN [args |-> args, result |-> checked]
    ELSE IF ~checked.ok.valid THEN [args |-> args, result |-> Ok(checked.ok.err)]
    ELSE IF /\ agent_name # COORDINATOR
            /\ tool.name = "transfer_to_agent"
            /\ Get(args, "agent_name") # S(COORDINATOR)
    THEN [args |-> Put(args, "agent_name", S(COORDINATOR)), result |-> Ok(NoneV)]
    ELSE [args |-> args, result |-> Ok(NoneV)]

\* before_tool after args.clear(); args.update(converted_args).
\* lowercase_value(args) is called for its return value, which is dropped;
\* str objects are immutable, so args is as it was before that call.
CheckTenant(tool, args, lowered, agent_name, session_state) ==
    GuardTransfer(tool, args, agent_name,
        IF "customer_id" \in DOMAIN args
        THEN validate_customer_id(args["customer_id"], session_state)
        ELSE Ok([valid |-> TRUE, err |-> NoneV]))

\* before_tool: the args mapping as the callback leaves it, and what the
\* callback returns (None to proceed, a string to deny) or raises.
before_tool(tool, args, agent_name, session_state) ==
    CheckTenant(tool, convert_args_to_pydantic(tool, args),
                lowercase_value(D(convert_args_to_pydantic(tool, args))),
                agent_name, session_state)

\* after_tool: always None (the tool's response is kept).
after_tool(tool, args, tool_response) == NoneV

\* [Model(**row) for row in rows]: the list, or the first exception
ListOf(made) ==
    IF AllOk(made) THEN Ok(L([i \in DOMAIN made |-> made[i].ok]))
    ELSE FirstRaise(made)

\* Order(id=order["id"], date_ordered=order["date_ordered"], ...): the
\* orders table has a column date and none called date_ordered.
OrderOfRow(order) ==
    IF "date_ordered" \notin DOMAIN order THEN Raise("KeyError")
    ELSE Construct("Order",
            [id |-> order["id"], date_ordered |-> order["date_ordered"],
             total |-> order["total"], status |-> order["status"]])

BuildRecord(customer, addresses, orders) ==
    IF IsRaise(addresses) THEN addresses
    ELSE IF IsRaise(orders) THEN orders
    ELSE Construct("CustomerRecord",
                   [id |-> customer.id, email |-> customer.email,
                    addresses |-> addresses.ok,
                    locked |-> customer.locked, deleted |-> customer.deleted])

RowsOf(table, customer_id) == SetToSeq({ r \in table : r.customer_id = customer_id })

\* _get_customer_record (tools/account_management.py)
get_customer_record(db, customer_id) ==
    IF LiveCustomer(db, customer_id) = {} THEN Raise("ValueError")
    ELSE BuildRecord(FetchOne(LiveCustomer(db, customer_id)),
            ListOf([i \in DOMAIN RowsOf(db.addresses, customer_id) |->
                      Construct("Address", RowsOf(db.addresses, customer_id)[i])]),
            ListOf([i \in DOMAIN RowsOf(db.orders, customer_id) |->
                      OrderOfRow(RowsOf(db.orders, customer_id)[i])]))

BindProfile(session_state, record) ==
    IF IsRaise(record) THEN [state |-> session_state, result |-> record]
    ELSE [state |-> Put(session_state, "customer_profile", model_dump_json(record.ok)),
          result |-> Ok(NoneV)]

\* before_agent: the session state it leaves and how it ends.
before_agent(session_state, db) ==
    IF "customer_profile" \notin DOMAIN session_state
    THEN BindProfile(session_state, get_customer_record(db, S(DEFAULT_CUSTOMER_ID)))
    ELSE [state |-> session_state, result |-> Ok(NoneV)]

RATE_LIMIT_SECS == 60
RPM_QUOTA == 10

\* The part texts of llm_request after the loop that blanks empty ones.
BlankEmpty(contents) ==
    [i \in DOMAIN contents |-> IF contents[i] = "" THEN " " ELSE contents[i]]

\* Variant: the sleep ends on the window's last second.
delay_unpadded(elapsed_secs) == RATE_LIMIT_SECS - elapsed_secs

\* delay = RATE_LIMIT_SECS - elapsed_secs + 1
delay(elapsed_secs) == RATE_LIMIT_SECS - elapsed_secs + 1

\* Variant: the window starts in an emptied session state.
StartWindow_fresh(session_state, time_now) ==
    [timer_start |-> N(time_now), request_count |-> N(1)]

StartWindow(session_state, time_now) ==
    Put(Put(session_state, "timer_start", N(time_now)), "request_count", N(1))

\* Variant: the count is kept when the window restarts.
OverQuota_keepcount(session_state, time_now, secs) ==
    [state |-> Put(Put(session_state, "timer_start", N(time_now)),
                   "request_count", N(session_state["request_count"].n + 1)),
     returned |-> IF secs > 0 THEN time_now + secs ELSE time_now]

\* rate_limit_callback from the quota test on: time.sleep(delay) when the
\* delay is positive, then the window restarts at the time read on entry.
OverQuota(session_state, time_now, secs) ==
    [state |-> StartWindow(session_state, time_now),
     returned |-> IF secs > 0 THEN time_now + secs ELSE time_now]

\* Variant: every call restarts the window.
rate_limit_callback_restart(session_state, time_now) ==
    IF "timer_start" \notin DOMAIN session_state
    THEN [state |-> StartWindow(session_state, time_now), returned |-> time_now]
    ELSE [state |-> Put(Put(session_state, "timer_start", N(time_now)),
                        "request_count",
                        N(session_state["request_count"].n + 1)),
          returned |-> time_now]

\* rate_limit_callback, called at time_now: the session state it leaves and
\* the time at which it returns.
rate_limit_callback(session_state, time_now) ==
    IF "timer_start" \notin DOMAIN session_state
    THEN [state |-> StartWindow(session_state, time_now), returned |-> time_now]
    ELSE IF session_state["request_count"].n + 1 > RPM_QUOTA
    THEN OverQuota(session_state, time_now,
                   delay(time_now - session_state["timer_start"].n))
    ELSE [state |-> Put(session_state, "request_count",
                        N(session_state["request_count"].n + 1)),
          returned |-> time_now]

----------------------------------------------------------------------------
(* Tool functions: tools/*.py. Each gives the outcome of the call and the   *)
(* store as the call leaves it (writes that are committed).                 *)

Done(outcome, db) == [response |-> outcome, db |-> db]

\* get_db's finally: conn.close(). What the connection wrote stays in the
\* store only if conn.commit() was called; otherwise it is rolled back.
close(db, written, committed) == IF committed THEN written ELSE db

\* The order statuses tools/order_management.py imports as OrderStatus from
\* datamodels/orders.py, which does not define it; the values are those the
\* specification lists.
OrderStatus ==
    [PROCESSING |-> "processing", SHIPPED |-> "shipped",
     DELIVERED |-> "delivered", CANCELLED |-> "cancelled"]

\* round(total * pct / 100, 2), in cents
Percent(total, pct) == (total * pct + 50) \div 100

\* order_items JOIN products WHERE order_id = ? (the product's name column
\* is left out of the item mappings)
InvoiceItems(order_id) ==
    LET rows == SelectSeq(SeedOrderItems, LAMBDA r : r.order_id = order_id)
    IN  L([i \in DOMAIN rows |->
            D([product_id |-> rows[i].product_id, quantity |-> rows[i].quantity,
               unit_price |-> N(SeedProducts[rows[i].product_id.s])])])

\* payment_billing.get_invoice
get_invoice(db, order_id) ==
    LET order == FetchOne(OrderById(db, order_id))
    IN  IF IsNone(order) THEN Done(Ok(D(EmptyMap)), db)
        ELSE Done(Construct("Invoice",
                    [invoice_id |-> S("INV-" \o order_id.s),
                     order_id |-> order_id,
                     date |-> order["date"],
                     items |-> InvoiceItems(order_id),
                     subtotal |-> N(Percent(order["total"].n, 85)),
                     tax |-> N(Percent(order["total"].n, 10)),
                     shipping |-> N(Percent(order["total"].n, 5)),
                     total |-> order["total"],
                     download_url |->
                        S("https://example.com/invoices/" \o order_id.s \o ".pdf")]),
                  db)

\* payment_billing.process_refund
process_refund(db, order_id, amount, reason) ==
    LET order == FetchOne(OrderById(db, order_id))
        refund_amount == IF ~IsNone(amount) THEN amount ELSE order["total"]
    IN  IF IsNone(order)
        THEN Done(Construct("RefundResult",
                    [success |-> B(FALSE), refund_id |-> S(""), amount |-> N(0),
                     estimated_arrival |-> S(""), method |-> S("")]), db)
        ELSE Done(Construct("RefundResult",
                    [success |-> B(TRUE), refund_id |-> S("refund-uuid"),
                     amount |-> refund_amount,
                     estimated_arrival |-> S("3-5 business days"),
                     method |-> S("Original payment method")]), db)

\* order_management.cancel_order. OrderCancellationResult is built without
\* its required field refund_eta on every path.
cancel_order(db, order_id, reason) ==
    LET order == FetchOne(OrderById(db, order_id))
    IN  IF IsNone(order)
        THEN Done(Construct("OrderCancellationResult",
                    [success |-> B(FALSE), message |-> S("Order not found"),
                     refund_amount |-> N(0)]), db)
        ELSE IF order["status"] \in {S(OrderStatus.SHIPPED), S(OrderStatus.DELIVERED)}
        THEN Done(Construct("OrderCancellationResult",
                    [success |-> B(FALSE),
                     message |-> S("Order cannot be cancelled because it has already been "
                                   \o order["status"].s),
                     refund_amount |-> N(0)]), db)
        ELSE Done(Construct("OrderCancellationResult",
                    [success |-> B(TRUE),
                     message |-> S("Order cancelled successfully"),
                     refund_amount |-> order["total"]]), db)

\* order.model_dump()
ModelDump(made) == IF IsOk(made) THEN Ok(D(made.ok.f)) ELSE made

\* order_management.get_order_details
get_order_details(db, customer_id, order_id) ==
    LET order == FetchOne({ o \in db.orders :
                              o.id = order_id /\ o.customer_id = customer_id })
    IN  IF IsNone(order) THEN Done(Ok(D(EmptyMap)), db)
        ELSE Done(ModelDump(OrderOfRow(order)), db)

\* bool(value) of an argument
Truthy(v) ==
    CASE "b" \in DOMAIN v -> v.b
      [] IsStr(v) -> v.s # ""
      [] "n" \in DOMAIN v -> v.n # 0
      [] IsNone(v) -> FALSE
      [] OTHER -> TRUE

\* Variant: the row is deleted.
delete_account_hard(db, customer_id, confirmation) ==
    [response |-> Ok(B(TRUE)),
     db |-> [db EXCEPT !.customers = { c \in @ : c.id # customer_id }]]

\* account_management.delete_account
delete_account(db, customer_id, confirmation) ==
    IF ~Truthy(confirmation) THEN Done(Ok(B(FALSE)), db)
    ELSE LET hit == { c \in db.customers : c.id = customer_id }
             updated == { IF c \in hit THEN [c EXCEPT !.deleted = B(TRUE)] ELSE c :
                          c \in db.customers }
         IN  Done(Ok(B(hit # {})), [db EXCEPT !.customers = updated])

\* account_management.delete_address
delete_address(db, customer_id, address_id) ==
    LET hit == { a \in db.addresses :
                   a.id = address_id /\ a.customer_id = customer_id }
    IN  Done(Ok(B(hit # {})), [db EXCEPT !.addresses = @ \ hit])

\* value or ""
OrEmpty(v) == IF Truthy(v) THEN v ELSE S("")

\* account_management.add_address. address_data.line1 is an attribute read:
\* a mapping left unconverted has no such attribute.
add_address(db, customer_id, address_data) ==
    IF LiveCustomer(db, customer_id) = {}
    THEN Done(Ok(D([success |-> B(FALSE), address_id |-> S("")])), db)
    ELSE IF ~IsModel(address_data) THEN Done(Raise("AttributeError"), db)
    ELSE LET address_id == S("addr-uuid" \o ToString(db.uuids + 1))
             row == [id |-> address_id, customer_id |-> customer_id,
                     line1 |-> address_data.f.line1,
                     line2 |-> OrEmpty(address_data.f.line2),
                     city |-> OrEmpty(address_data.f.city),
                     postal_code |-> OrEmpty(address_data.f.postal_code)]
         IN  Done(Ok(D([success |-> B(TRUE), address_id |-> address_id])),
                  [db EXCEPT !.addresses = @ \cup {row}, !.uuids = @ + 1])

\* Variant: the address is looked up by its id alone.
update_address_anyowner(db, customer_id, address_id, address_data) ==
    IF ~IsModel(address_data) THEN Done(Raise("AttributeError"), db)
    ELSE LET hit == { a \in db.addresses : a.id = address_id }
             updated == { IF a \in hit
                          THEN [a EXCEPT !.line1 = address_data.f.line1,
                                         !.line2 = OrEmpty(address_data.f.line2),
                                         !.city = OrEmpty(address_data.f.city),
                                         !.postal_code =
                                             OrEmpty(address_data.f.postal_code)]
                          ELSE a : a \in db.addresses }
         IN  Done(Ok(B(hit # {})), [db EXCEPT !.addresses = updated])

\* account_management.update_address
update_address(db, customer_id, address_id, address_data) ==
    IF ~IsModel(address_data) THEN Done(Raise("AttributeError"), db)
    ELSE LET hit == { a \in db.addresses :
                        a.id = address_id /\ a.customer_id = customer_id }
             updated == { IF a \in hit
                          THEN [a EXCEPT !.line1 = address_data.f.line1,
                                         !.line2 = OrEmpty(address_data.f.line2),
                                         !.city = OrEmpty(address_data.f.city),
                                         !.postal_code =
                                             OrEmpty(address_data.f.postal_code)]
                          ELSE a : a \in db.addresses }
         IN  Done(Ok(B(hit # {})), [db EXCEPT !.addresses = updated])

\* account_management.unlock_account
unlock_account(db, customer_id) ==
    LET hit == LiveCustomer(db, customer_id)
        updated == { IF c \in hit THEN [c EXCEPT !.locked = B(FALSE)] ELSE c :
                     c \in db.customers }
    IN  Done(Ok(B(hit # {})), [db EXCEPT !.customers = updated])

\* account_management.list_addresses
list_addresses(db, customer_id) ==
    IF LiveCustomer(db, customer_id) = {} THEN Done(Ok(L(<<>>)), db)
    ELSE Done(ListOf([i \in DOMAIN RowsOf(db.addresses, customer_id) |->
                        Construct("Address", RowsOf(db.addresses, customer_id)[i])]),
              db)

\* order_management.change_delivery_address
change_delivery_address(db, order_id, new_address) ==
    LET order == FetchOne(OrderById(db, order_id))
    IN  IF IsNone(order)
        THEN Done(Construct("AddressUpdateResult",
                    [success |-> B(FALSE), message |-> S("Order not found")]), db)
        ELSE Done(Construct("AddressUpdateResult",
                    [success |-> B(TRUE),
                     message |-> S("Delivery address updated successfully")]), db)

\* The loop of modify_order_list over updated_items[i..], new_total so far.
RECURSIVE ModifyLoop(_, _, _, _)
ModifyLoop(order, items, i, new_total) ==
    IF i > Len(items)
    THEN Construct("OrderModificationResult",
            [success |-> B(TRUE), message |-> S("Order modified successfully"),
             updated_total |-> N(new_total)])
    ELSE IF ~IsModel(items[i]) THEN Raise("AttributeError")
    ELSE IF ~IsStr(items[i].f.product_id)
            \/ items[i].f.product_id.s \notin DOMAIN SeedProducts
    THEN Construct("OrderModificationResult",
            [success |-> B(FALSE),
             message |-> S("Product " \o items[i].f.product_id.s \o " not found"),
             updated_total |-> order["total"]])
    ELSE ModifyLoop(order, items, i + 1,
            new_total + SeedProducts[items[i].f.product_id.s] * items[i].f.quantity.n)

\* Variant: the status of the order is not looked at.
modify_order_list_anystatus(db, order_id, updated_items) ==
    LET order == FetchOne(OrderById(db, order_id))
    IN  IF IsNone(order)
        THEN Done(Construct("OrderModificationResult",
                    [success |-> B(FALSE), message |-> S("Order not found"),
                     updated_total |-> N(0)]), db)
        ELSE Done(ModifyLoop(order, updated_items.l, 1, 0), db)

\* order_management.modify_order_list
modify_order_list(db, order_id, updated_items) ==
    LET order == FetchOne(OrderById(db, order_id))
    IN  IF IsNone(order)
        THEN Done(Construct("OrderModificationResult",
                    [success |-> B(FALSE), message |-> S("Order not found"),
                     updated_total |-> N(0)]), db)
        ELSE IF order["status"] # S(OrderStatus.PROCESSING)
        THEN Done(Construct("OrderModificationResult",
                    [success |-> B(FALSE),
                     message |-> S("Order cannot be modified because it is already "
                                   \o order["status"].s),
                     updated_total |-> order["total"]]), db)
        ELSE Done(ModifyLoop(order, updated_items.l, 1, 0), db)

\* account_management.update_email: conn.commit() is commented out.
update_email(db, customer_id, new_email) ==
    LET hit == LiveCustomer(db, customer_id)
        updated == { IF c \in hit THEN [c EXCEPT !.email = new_email] ELSE c :
                     c \in db.customers }
    IN  Done(Ok(B(hit # {})),
             close(db, [db EXCEPT !.customers = updated], FALSE))

\* account_management.reset_password
reset_password(db, email) ==
    LET customer == FetchOne({ c \in db.customers :
                                 /\ c.email = S(str_lower(email.s))
                                 /\ c.deleted = B(FALSE) })
    IN  IF IsNone(customer)
        THEN Done(Ok(D([success |-> B(FALSE), reset_link |-> S("")])), db)
        ELSE Done(Ok(D([success |-> B(TRUE),
                        reset_link |->
                          S("https://example.com/reset-password?token=uuid&uid="
                            \o customer.id.s)])), db)

\* payment_billing.remove_payment_method: no conn.commit().
remove_payment_method(db, customer_id, payment_method_id) ==
    LET hit == { m \in db.payment_methods :
                   m.id = payment_method_id /\ m.customer_id = customer_id }
    IN  IF hit # {}
        THEN Done(Construct("PaymentMethodResult",
                    [success |-> B(TRUE),
                     message |-> S("Payment method removed successfully")]),
                  close(db, [db EXCEPT !.payment_methods = @ \ hit], FALSE))
        ELSE Done(Construct("PaymentMethodResult",
                    [success |-> B(FALSE),
                     message |-> S("Payment method not found")]), db)

\* payment_billing.get_payment_methods
get_payment_methods(db, customer_id) ==
    Done(ListOf([i \in DOMAIN RowsOf(db.payment_methods, customer_id) |->
                   Construct("PaymentMethod",
                             RowsOf(db.payment_methods, customer_id)[i])]),
         db)

\* payment_billing.dispute_charge
dispute_charge(db, order_id, reason, details) ==
    IF OrderById(db, order_id) = {}
    THEN Done(Construct("DisputeResult",
                [success |-> B(FALSE), dispute_id |-> S(""), status |-> S(""),
                 expected_resolution_date |-> S("")]), db)
    ELSE Done(Construct("DisputeResult",
                [success |-> B(TRUE), dispute_id |-> S("dispute-uuid"),
                 status |-> S("under_review"),
                 expected_resolution_date |-> S("2025-11-15")]), db)

\* valid_codes of apply_promo_code
valid_codes ==
    [SAVE10 |-> [type |-> "percentage", value |-> 10],
     SAVE20 |-> [type |-> "percentage", value |-> 20],
     FREESHIP |-> [type |-> "free_shipping", value |-> 0]]

\* apply_promo_code once the order and the code are found; amounts in cents.
Discounted(total, promo) ==
    IF promo.type = "percentage"
    THEN [success |-> B(TRUE), discount_amount |-> N(Percent(total, promo.value)),
          new_total |-> N(total - Percent(total, promo.value)),
          message |-> S(ToString(promo.value) \o "% off applied")]
    ELSE [success |-> B(TRUE), discount_amount |-> N(500),
          new_total |-> N(total - 500), message |-> S("Free shipping applied")]

\* payment_billing.apply_promo_code
apply_promo_code(db, order_id, promo_code) ==
    LET order == FetchOne(OrderById(db, order_id))
    IN  IF IsNone(order)
        THEN Done(Construct("PromoCodeResult",
                    [success |-> B(FALSE), discount_amount |-> N(0),
                     new_total |-> N(0), message |-> S("Order not found")]), db)
        ELSE IF promo_code.s \notin DOMAIN valid_codes
        THEN Done(Construct("PromoCodeResult",
                    [success |-> B(FALSE), discount_amount |-> N(0),
                     new_total |-> order["total"],
                     message |-> S("Invalid promo code")]), db)
        ELSE Done(Construct("PromoCodeResult",
                    Discounted(order["total"].n, valid_codes[promo_code.s])), db)

\* The call func(**args) for the arguments a, with defaults filled in.
CallTool(name, a, db) ==
    CASE name = "transfer_to_agent" -> Done(Ok(NoneV), db)
      [] name = "get_invoice" -> get_invoice(db, a.order_id)
      [] name = "process_refund" -> process_refund(db, a.order_id, a.amount, a.reason)
      [] name = "cancel_order" -> cancel_order(db, a.order_id, a.reason)
      [] name = "get_order_details" -> get_order_details(db, a.customer_id, a.order_id)
      [] name = "delete_account" -> delete_account(db, a.customer_id, a.confirmation)
      [] name = "delete_address" -> delete_address(db, a.customer_id, a.address_id)
      [] name = "add_address" -> add_address(db, a.customer_id, a.address_data)
      [] name = "list_addresses" -> list_addresses(db, a.customer_id)
      [] name = "change_delivery_address" ->
            change_delivery_address(db, a.order_id, a.new_address)
      [] name = "modify_order_list" ->
            modify_order_list(db, a.order_id, a.updated_items)
      [] name = "update_email" -> update_email(db, a.customer_id, a.new_email)
      [] name = "reset_password" -> reset_password(db, a.email)
      [] name = "remove_payment_method" ->
            remove_payment_method(db, a.customer_id, a.payment_method_id)
      [] name = "get_payment_methods" -> get_payment_methods(db, a.customer_id)
      [] name = "dispute_charge" ->
            dispute_charge(db, a.order_id, a.reason, a.details)
      [] name = "apply_promo_code" ->
            apply_promo_code(db, a.order_id, a.promo_code)
      [] name = "update_address" ->
            update_address(db, a.customer_id, a.address_id, a.address_data)
      [] name = "unlock_account" -> unlock_account(db, a.customer_id)

----------------------------------------------------------------------------
(* Sessions, agents and the calls the language model may issue *)

Sessions == {"s1", "s2"}

\* The specialist whose TOOLS list holds the tool (sub_agents/*.py).
AgentOf(name) ==
    CASE name \in {"get_invoice", "process_refund", "remove_payment_method"} ->
            "payment_billing"
      [] name \in {"cancel_order", "get_order_details", "change_delivery_address",
                   "modify_order_list"} -> "order_management"
      [] name \in {"delete_account", "delete_address", "add_address",
                   "list_addresses", "update_address", "unlock_account",
                   "update_email"} -> "account_management"

\* Every agent may call the framework's transfer_to_agent.
Agents == {COORDINATOR, "order_management", "payment_billing"}

CallersOf(name) ==
    IF name = "transfer_to_agent" THEN Agents ELSE {AgentOf(name)}

Rec1(k, v) == [x \in {k} |-> v]

\* base, and base with key k set to each of vals
WithOpt(bases, k, vals) == bases \cup { Put(b, k, v) : b \in bases, v \in vals }
With(bases, k, vals) == { Put(b, k, v) : b \in bases, v \in vals }

CustomerIdArgs == { S("cust-1"), S("cust-2"), S("CUST-1"), S("cust-9") }
AgentNameArgs ==
    { S(COORDINATOR), S("order_management"), S("Customer_Service_Coordinator"),
      S("unknown_agent") }

GoodAddress == D([line1 |-> S("12 Main St"), city |-> S("Paris"),
                  postal_code |-> S("75001")])
BadAddress == D([line1 |-> S("12 Main St"), city |-> S("Paris")])

GoodItem == D([product_id |-> S("456"), quantity |-> N(2)])
OtherItem == D([product_id |-> S("101"), quantity |-> N(1)])
UnknownItem == D([product_id |-> S("999"), quantity |-> N(1)])
BadItem == D([product_id |-> S("456")])

\* The argument mappings the language model sends to each tool.
ArgsOf(name) ==
    CASE name = "transfer_to_agent" ->
            WithOpt({EmptyMap} \cup With({EmptyMap}, "agent_name", AgentNameArgs),
                    "customer_id", {S("cust-2")})
      [] name = "get_invoice" ->
            WithOpt(With({EmptyMap}, "order_id",
                         {S("ord-1"), S("ord-2"), S("ORD-2"), S("ord-9")}),
                    "customer_id", {S("cust-1")})
      [] name = "process_refund" ->
            With({EmptyMap}, "order_id", {S("ord-2"), S("ord-4")})
      [] name = "cancel_order" ->
            With(With({EmptyMap}, "order_id", {S("ord-3"), S("ord-4")}),
                 "reason", {S("Damaged")})
      [] name = "get_order_details" ->
            With(With({EmptyMap}, "customer_id", {S("cust-1"), S("cust-2")}),
                 "order_id", {S("ord-1")})
      [] name = "delete_account" ->
            With(With({EmptyMap}, "customer_id", CustomerIdArgs),
                 "confirmation", {B(TRUE)})
              \cup {[customer_id |-> S("cust-1"), confirmation |-> B(FALSE)]}
      [] name = "delete_address" ->
            { [customer_id |-> S("cust-1"), address_id |-> S("addr-1")],
              [customer_id |-> S("cust-1"), address_id |-> S("addr-2")],
              [customer_id |-> S("cust-2"), address_id |-> S("addr-2")] }
      [] name = "add_address" ->
            With(With({EmptyMap}, "customer_id", {S("cust-1"), S("CUST-1")}),
                 "address_data", {GoodAddress, BadAddress})
      [] name = "list_addresses" -> With({EmptyMap}, "customer_id", CustomerIdArgs)
      [] name = "change_delivery_address" ->
            With(With({EmptyMap}, "order_id", {S("ord-4"), S("ord-9")}),
                 "new_address", {GoodAddress})
      [] name = "modify_order_list" ->
            With(With({EmptyMap}, "order_id", {S("ord-4")}),
                 "updated_items",
                 { L(<<GoodItem>>), L(<<GoodItem, OtherItem>>), L(<<UnknownItem>>),
                   L(<<GoodItem, BadItem>>) })
              \cup {[order_id |-> S("ord-3"), updated_items |-> L(<<GoodItem>>)]}
      [] name = "update_address" ->
            With(With(With({EmptyMap}, "customer_id", {S("cust-1"), S("cust-2")}),
                      "address_id", {S("addr-1"), S("addr-2")}),
                 "address_data", {GoodAddress})
      [] name = "unlock_account" ->
            With({EmptyMap}, "customer_id", {S("cust-1"), S("cust-2")})
      [] name = "update_email" ->
            With(With({EmptyMap}, "customer_id", {S("cust-1"), S("cust-2")}),
                 "new_email", {S("new@example.com")})
      [] name = "remove_payment_method" ->
            With(With({EmptyMap}, "customer_id", {S("cust-1"), S("cust-2")}),
                 "payment_method_id", {S("pm-1"), S("pm-2")})

\* How many rows the tools may add to the store.
MaxNewRows == 1

\* Session state a session may be created with: nothing, the serialized
\* record of a customer of the store, or a profile text that does not parse
\* into a customer record.
ProfileOf(row) ==
    model_dump_json(Construct("CustomerRecord",
                              [id |-> row.id, email |-> row.email]).ok)

UnreadableProfiles ==
    { [text |-> "not json"], [json |-> [email |-> S("alice@example.com")]] }

CreatedStates ==
    {EmptyMap}
      \cup { Rec1("customer_profile", ProfileOf(c)) : c \in SeedCustomers }
      \cup { Rec1("customer_profile", p) : p \in UnreadableProfiles }

Idle == [phase |-> "idle"]

----------------------------------------------------------------------------
(* The mediated pipeline. The agent framework calls before_agent before an  *)
(* agent runs and before_tool before each tool call; when before_tool       *)
(* returns None it runs the tool with the args mapping before_tool left,    *)
(* then after_tool; any other return value replaces the tool's response,    *)
(* and an exception ends the call. These hooks are registered in agent.py   *)
(* and sub_agents/*.py.                                                     *)

Init ==
    /\ store = SeedStore
    /\ state \in [Sessions -> CreatedStates]
    /\ state["s2"] = Rec1("customer_profile",
                          ProfileOf(CustomerRow("cust-2", "bob@example.com")))
    /\ pending = Idle
    /\ last = [op |-> "none"]
    /\ now = 0
    /\ fn = [op |-> "none"]

AgentDone(s, r) ==
    /\ state' = [state EXCEPT ![s] = r.state]
    /\ last' = [op |-> "before_agent", session |-> s, state_in |-> state[s],
                result |-> r.result]

BeforeAgent(s) ==
    /\ pending = Idle
    /\ AgentDone(s, before_agent(state[s], store))
    /\ UNCHANGED <<store, pending, now, fn>>

ToolGated(s, agent, name, args, r) ==
    /\ last' = [op |-> "before_tool", session |-> s, agent |-> agent,
                tool |-> name, args_in |-> args, args |-> r.args,
                result |-> r.result]
    /\ pending' = IF r.result = Ok(NoneV)
                  THEN [phase |-> "tool", session |-> s, agent |-> agent,
                        tool |-> name, args |-> r.args]
                  ELSE Idle

BeforeTool(s, agent, name, args) ==
    /\ pending = Idle
    /\ name = "add_address" => store.uuids < MaxNewRows
    /\ ToolGated(s, agent, name, args,
                 before_tool(Tool(name), args, agent, state[s]))
    /\ UNCHANGED <<store, state, now, fn>>

\* The framework passes the declared parameters it was given, and answers
\* with an error mapping, without calling the tool, when one without a
\* default is missing.
BoundArgs(name, args) ==
    [p \in (DOMAIN args \cap DOMAIN TypeHints(name)) \cup DOMAIN Defaults(name) |->
        IF p \in DOMAIN args THEN args[p] ELSE Defaults(name)[p]]

MissingArgs(name, args) ==
    DOMAIN TypeHints(name) \ (DOMAIN args \cup DOMAIN Defaults(name))

Dispatch(name, args, db) ==
    IF MissingArgs(name, args) = {}
    THEN CallTool(name, BoundArgs(name, args), db)
    ELSE Done(Ok(D(Rec1("error", S("mandatory parameters missing")))), db)

\* after_tool's return value replaces the response unless it is None.
Respond(response, altered) == IF IsNone(altered) THEN response ELSE Ok(altered)

ToolDone(call, r) ==
    /\ store' = r.db
    /\ last' = [op |-> "tool", session |-> call.session, agent |-> call.agent,
                tool |-> call.tool, args |-> call.args,
                called |-> MissingArgs(call.tool, call.args) = {},
                response |-> Respond(r.response,
                                     after_tool(Tool(call.tool), call.args,
                                                r.response))]

RunTool ==
    /\ pending # Idle
    /\ ToolDone(pending, Dispatch(pending.tool, pending.args, store))
    /\ pending' = Idle
    /\ UNCHANGED <<state, now, fn>>

Next ==
    \/ \E s \in Sessions : BeforeAgent(s)
    \/ \E s \in Sessions, name \in ToolNames :
          \E agent \in CallersOf(name), args \in ArgsOf(name) :
             BeforeTool(s, agent, name, args)
    \/ RunTool

Spec == Init /\ [][Next]_vars

----------------------------------------------------------------------------
(* lowercase_value on its own: applied to values of bounded size.           *)

\* Longest list among the values.
MaxLen == 2

LowerLeaves == {S("AB"), S("Cd"), S("ef"), N(7), B(TRUE), NoneV}
LowerKeys == {"Name", "tags"}

ListsOver(base) == { L(q) : q \in UNION { [1..n -> base] : n \in 0..MaxLen } }
DictsOver(base) == { D(f) : f \in UNION { [K -> base] : K \in SUBSET LowerKeys } }

LowerInputs ==
    LowerLeaves \cup ListsOver(LowerLeaves) \cup DictsOver(LowerLeaves)
      \cup ListsOver({S("AB"), D([Name |-> S("Cd")]), L(<<S("Ef")>>)})
      \cup DictsOver({S("AB"), L(<<S("Cd"), N(7)>>), D([Name |-> S("EF")])})

InitLower ==
    /\ store = SeedStore
    /\ state = [s \in Sessions |-> EmptyMap]
    /\ pending = Idle
    /\ last = [op |-> "none"]
    /\ now = 0
    /\ fn = [op |-> "none"]

ApplyLowercase(value) ==
    /\ fn' = [op |-> "lowercase_value", arg |-> value,
              res |-> lowercase_value(value)]
    /\ UNCHANGED <<store, state, pending, last, now>>

NextLower == \E value \in LowerInputs : ApplyLowercase(value)

SpecLower == InitLower /\ [][NextLower]_vars

----------------------------------------------------------------------------
(* The rate limiter on its own: model calls of one session, each arriving   *)
(* some seconds after the previous one returned.                            *)

\* The clock stops here.
MaxTime == 130

Gaps == {0, 1, 25, 59, 61}
Requests == { <<"hello">>, <<"", "hello">> }

InitRate == InitLower

\* Variant: the counters are kept in one place for all sessions.
RateDone_shared(s, arrived, contents, r) ==
    /\ r.returned <= MaxTime
    /\ state' = [x \in Sessions |->
                   Put(Put(state[x], "timer_start", r.state["timer_start"]),
                       "request_count", r.state["request_count"])]
    /\ now' = r.returned
    /\ last' = [op |-> "rate_limit_callback", session |-> s,
                arrived |-> arrived, state_in |-> state[s],
                returned |-> r.returned, contents |-> BlankEmpty(contents)]

RateDone(s, arrived, contents, r) ==
    /\ r.returned <= MaxTime
    /\ state' = [state EXCEPT ![s] = r.state]
    /\ now' = r.returned
    /\ last' = [op |-> "rate_limit_callback", session |-> s,
                arrived |-> arrived, state_in |-> state[s],
                returned |-> r.returned, contents |-> BlankEmpty(contents)]

ModelCall(s, gap, contents) ==
    /\ RateDone(s, now + gap, contents, rate_limit_callback(state[s], now + gap))
    /\ UNCHANGED <<store, pending, fn>>

NextRate == \E gap \in Gaps, contents \in Requests : ModelCall("s1", gap, contents)

SpecRate == InitRate /\ [][NextRate]_vars

----------------------------------------------------------------------------
(* The rate limiter with the calls it lets through written down: each model *)
(* call proceeds to the model at the time rate_limit_callback returns, and  *)
(* fn keeps the times of the latest RPM_QUOTA + 1 calls that proceeded.     *)

CoarseGaps == {0, 61}

\* The log of proceed times after one more call proceeded at time t.
Recent(times, t) ==
    IF Len(times) < RPM_QUOTA + 1
    THEN Append(times, t)
    ELSE Append(Tail(times), t)

ModelCallLogged(s, gap, contents) ==
    /\ RateDone(s, now + gap, contents, rate_limit_callback(state[s], now + gap))
    /\ fn' = [op |-> "proceeded",
              times |-> Recent(IF fn.op = "proceeded" THEN fn.times ELSE <<>>,
                               rate_limit_callback(state[s], now + gap).returned)]
    /\ UNCHANGED <<store, pending>>

NextBurst ==
    \E gap \in CoarseGaps, contents \in Requests : ModelCallLogged("s1", gap, contents)

SpecBurst == InitRate /\ [][NextBurst]_vars

----------------------------------------------------------------------------
(* convert_args_to_pydantic on its own: applied to the arguments of tools   *)
(* with a record parameter, a list-of-records parameter, plain parameters,  *)
(* and to a tool object without a func attribute.                           *)

\* Longest updated_items list.
MaxItems == 3

NoFuncTool == [name |-> "agent_tool", has_func |-> FALSE,
               hints |-> TypeHints("add_address")]

ConvertTools ==
    {Tool("add_address"), Tool("modify_order_list"), Tool("cancel_order"), NoFuncTool}

NoneAddress == D([line1 |-> S("12 Main St"), line2 |-> NoneV,
                  postal_code |-> S("75001")])

AddressValues ==
    { GoodAddress, BadAddress, NoneAddress,
      Construct("AddressData", GoodAddress.d).ok,
      S("12 Main St"), L(<<GoodAddress>>) }

ItemValues == { GoodItem, BadItem, Construct("OrderItem", OtherItem.d).ok, S("456") }

ItemLists == { L(q) : q \in UNION { [1..n -> ItemValues] : n \in 0..MaxItems } }

ConvertArgsOf(tool) ==
    CASE tool.name \in {"add_address", "agent_tool"} ->
            WithOpt(With({Rec1("customer_id", S("cust-1"))}, "address_data",
                         AddressValues),
                    "note", {GoodAddress})
      [] tool.name = "modify_order_list" ->
            With({Rec1("order_id", S("ord-4"))}, "updated_items",
                 ItemLists \cup {GoodItem})
      [] tool.name = "cancel_order" ->
            With({Rec1("order_id", S("ord-4"))}, "reason",
                 {S("too late"), GoodAddress, L(<<GoodItem>>)})

ApplyConvert(tool, args) ==
    /\ fn' = [op |-> "convert_args_to_pydantic", tool |-> tool, args |-> args,
              res |-> convert_args_to_pydantic(tool, args),
              again |-> convert_args_to_pydantic(tool,
                            convert_args_to_pydantic(tool, args))]
    /\ UNCHANGED <<store, state, pending, last, now>>

NextConvert ==
    \E tool \in ConvertTools : \E args \in ConvertArgsOf(tool) : ApplyConvert(tool, args)

SpecConvert == InitLower /\ [][NextConvert]_vars

----------------------------------------------------------------------------
(* The tool functions called directly, each call opening its own            *)
(* connection on the store the earlier calls left.                          *)

TypedItems(product_id, quantity) ==
    L(<<Construct("OrderItem", [product_id |-> S(product_id),
                                quantity |-> N(quantity)]).ok>>)

Call(tool, args) == [tool |-> tool, args |-> args]

DirectCalls ==
    { Call("cancel_order", [order_id |-> S(o), reason |-> S("changed my mind")]) :
        o \in {"ord-1", "ord-3", "ord-4", "ord-999"} }
    \cup { Call("modify_order_list", [order_id |-> S(o), updated_items |-> i]) :
             o \in {"ord-4", "ord-3", "ord-999"},
             i \in {TypedItems("456", 2), TypedItems("999", 1), L(<<>>),
                    L(TypedItems("456", 2).l \o TypedItems("101", 1).l),
                    L(TypedItems("456", 2).l \o TypedItems("999", 1).l)} }
    \cup { Call("change_delivery_address",
                [order_id |-> S(o), new_address |-> GoodAddress]) :
             o \in {"ord-4", "ord-999"} }
    \cup { Call("process_refund", [order_id |-> S(o), amount |-> a, reason |-> S("")]) :
             o \in {"ord-2", "ord-999"},
             a \in {NoneV, N(1000), N(999999), N(-500)} }
    \cup { Call("dispute_charge",
                [order_id |-> S(o), reason |-> S("duplicate"), details |-> S("")]) :
             o \in {"ord-1", "ord-999"} }
    \cup { Call("apply_promo_code", [order_id |-> S(o), promo_code |-> S(c)]) :
             o \in {"ord-1", "ord-999"}, c \in {"SAVE10", "FREESHIP", "BOGUS"} }
    \cup { Call("update_email",
                [customer_id |-> S(c), new_email |-> S("new@example.com")]) :
             c \in {"cust-1", "cust-9"} }
    \cup { Call("reset_password", [email |-> S(e)]) :
             e \in {"alice@example.com", "Alice@Example.com", "nobody@example.com"} }
    \cup { Call("remove_payment_method",
                [customer_id |-> S("cust-1"), payment_method_id |-> S(m)]) :
             m \in {"pm-1", "pm-2"} }
    \cup { Call("get_payment_methods", [customer_id |-> S(c)]) :
             c \in {"cust-1", "cust-2"} }
    \cup { Call("list_addresses", [customer_id |-> S(c)]) :
             c \in {"cust-1", "cust-2"} }
    \cup { Call("delete_address", [customer_id |-> S(c), address_id |-> S(a)]) :
             c \in {"cust-1", "cust-2"}, a \in {"addr-1", "addr-2"} }
    \cup { Call("delete_account", [customer_id |-> S(c), confirmation |-> B(b)]) :
             c \in {"cust-1", "cust-2", "cust-9"}, b \in BOOLEAN }

Called(call, r) ==
    /\ store' = r.db
    /\ fn' = [op |-> "call", tool |-> call.tool, args |-> call.args,
              db_in |-> store, response |-> r.response]

CallDirect(call) ==
    /\ Called(call, CallTool(call.tool, call.args, store))
    /\ UNCHANGED <<state, pending, last, now>>

NextTools == \E call \in DirectCalls : CallDirect(call)

SpecTools == InitLower /\ [][NextTools]_vars

----------------------------------------------------------------------------
(* The tools that write to the store, called through before_tool in two     *)
(* sessions, each bound to its own customer.                                *)

InitBound ==
    /\ store = SeedStore
    /\ state = [s \in Sessions |->
                  Rec1("customer_profile",
                       ProfileOf(IF s = "s1"
                                 THEN CustomerRow("cust-1", "alice@example.com")
                                 ELSE CustomerRow("cust-2", "bob@example.com")))]
    /\ pending = Idle
    /\ last = [op |-> "none"]
    /\ now = 0
    /\ fn = [op |-> "none"]

WritingTools ==
    { "delete_account", "delete_address", "add_address", "update_address",
      "unlock_account", "update_email", "remove_payment_method" }

NextOwn ==
    \/ \E s \in Sessions, name \in WritingTools :
          \E agent \in CallersOf(name), args \in ArgsOf(name) :
             BeforeTool(s, agent, name, args)
    \/ RunTool

SpecOwn == InitBound /\ [][NextOwn]_vars

----------------------------------------------------------------------------
(* Two bound sessions whose model calls, agent starts and account deletions *)
(* interleave in any order.                                                 *)

NextSessions ==
    \/ \E s \in Sessions, gap \in CoarseGaps : ModelCall(s, gap, <<"hello">>)
    \/ \E s \in Sessions : BeforeAgent(s)
    \/ \E s \in Sessions, args \in ArgsOf("delete_account") :
          BeforeTool(s, AgentOf("delete_account"), "delete_account", args)
    \/ RunTool

SpecSessions == InitBound /\ [][NextSessions]_vars

----------------------------------------------------------------------------
(* Properties of the mediated pipeline *)

\* text contains x as a substring
Contains(text, x) ==
    \E i \in 1..(Len(text) - Len(x) + 1) : SubSeq(text, i, i + Len(x) - 1) = x

HasProfile(st) == "customer_profile" \in DOMAIN st
Parsed(st) == model_validate_json("CustomerRecord", st["customer_profile"])
Readable(st) == HasProfile(st) /\ IsOk(Parsed(st))
BoundId(st) == Parsed(st).ok.f.id

GatedWithCustomer ==
    /\ last.op = "before_tool"
    /\ "customer_id" \in DOMAIN last.args_in

IsDenial(result) == IsOk(result) /\ IsStr(result.ok)

TenantOk(args, st) ==
    "customer_id" \in DOMAIN args
        => Readable(st) /\ args["customer_id"] = BoundId(st)

\* C2: a tool call whose customer_id fails the tenant check is rejected
\* before the tool runs: no call that fails the check is ever handed to the
\* tool, the store only changes in a tool run whose call passed the check,
\* and the failing before_tool step leaves the store as it was.
C2_RejectedBeforeToolRuns ==
    [][ /\ ( /\ last'.op = "before_tool"
             /\ ~TenantOk(last'.args_in, state'[last'.session]) )
           => (store' = store /\ pending' = Idle)
        /\ pending' # Idle => TenantOk(pending'.args, state'[pending'.session])
        /\ store' # store
           => (pending # Idle /\ TenantOk(pending.args, state[pending.session]))
      ]_vars

C2_Witness ==
    /\ GatedWithCustomer
    /\ last.tool = "delete_account"
    /\ last.args_in = [customer_id |-> S("cust-2"), confirmation |-> B(TRUE)]
    /\ Readable(state[last.session])
    /\ BoundId(state[last.session]) = S("cust-1")
    /\ IsDenial(last.result)
    /\ pending = Idle
    /\ \E c \in store.customers : c.id = S("cust-2") /\ c.deleted = B(FALSE)

\* The response carries data of the order row o.
Carries(call, o) ==
    /\ IsOk(call.response)
    /\ IsModel(call.response.ok)
    /\ \/ /\ call.response.ok.m = "Invoice"
          /\ call.response.ok.f.order_id = o.id
          /\ call.response.ok.f.total = o.total
       \/ /\ call.response.ok.m = "RefundResult"
          /\ call.response.ok.f.success = B(TRUE)
          /\ call.args["order_id"] = o.id
          /\ call.response.ok.f.amount = o.total

\* C3: in a session bound to customer C no mediated tool call returns data
\* (invoice, refund amount) of an order that belongs to another customer.
C3_OnlyOwnData ==
    (last.op = "tool" /\ Readable(state[last.session]))
    => \A o \in store.orders :
          Carries(last, o) => o.customer_id = BoundId(state[last.session])

\* C4: before_tool on args with customer_id, in a session whose
\* customer_profile does not parse, returns the "could not be parsed" message
\* as a string and does not raise.
C4_UnreadableProfileMessage ==
    ( /\ GatedWithCustomer
      /\ HasProfile(state[last.session])
      /\ ~Readable(state[last.session]) )
    => last.result = Ok(S(UnparsedMsg))

\* C5: before_tool on args with customer_id, in a session without
\* customer_profile, returns the "no profile selected" message as a string
\* and does not raise, whatever the customer_id is.
C5_NoProfileMessage ==
    (GatedWithCustomer /\ ~HasProfile(state[last.session]))
    => /\ last.result = Ok(S(NoProfileMsg))
       /\ pending = Idle

C5_Witness ==
    /\ GatedWithCustomer
    /\ ~HasProfile(state[last.session])
    /\ last.args_in["customer_id"] = S(DEFAULT_CUSTOMER_ID)
    /\ IsDenial(last.result)

\* Every plain string in the value is lowercase, typed records excepted.
RECURSIVE AllLower(_)
AllLower(v) ==
    IF IsStr(v) THEN str_lower(v.s) = v.s
    ELSE IF IsList(v) THEN \A i \in DOMAIN v.l : AllLower(v.l[i])
    ELSE IF IsDict(v) THEN \A k \in DOMAIN v.d : AllLower(v.d[k])
    ELSE TRUE

\* C6: after before_tool returns, every plain string value of args, also
\* inside list and mapping arguments, is lowercase; values converted to typed
\* records are left as they are.
C6_ArgsLowercased ==
    (last.op = "before_tool" /\ IsOk(last.result)) => AllLower(D(last.args))

IsTransfer ==
    /\ last.op = "before_tool"
    /\ last.tool = "transfer_to_agent"

MustRedirect ==
    /\ last.agent # COORDINATOR
    /\ Get(last.args_in, "agent_name") # S(COORDINATOR)

TargetAsClaimed ==
    IF MustRedirect
    THEN Get(last.args, "agent_name") = S(COORDINATOR)
    ELSE Get(last.args, "agent_name") = Get(last.args_in, "agent_name")

\* C9 as stated: whenever before_tool returns for transfer_to_agent, a
\* specialist's target other than the coordinator has become the coordinator,
\* and a coordinator's transfer or one to the coordinator is unchanged.
C9_TransferRedirected == (IsTransfer /\ IsOk(last.result)) => TargetAsClaimed

\* C9 amended: the same, for the calls before_tool lets proceed (returns
\* None); a call it denies on the tenant check keeps the target it came with.
C9_TransferRedirectedWhenAllowed ==
    /\ (IsTransfer /\ last.result = Ok(NoneV)) => TargetAsClaimed
    /\ (IsTransfer /\ IsDenial(last.result)) => last.args = last.args_in

C9_Witness ==
    /\ IsTransfer
    /\ last.agent = "order_management"
    /\ last.args_in = [agent_name |-> S("unknown_agent")]
    /\ last.result = Ok(NoneV)
    /\ last.args = [agent_name |-> S(COORDINATOR)]
    /\ pending # Idle

\* C10: before_agent on a session without customer_profile completes without
\* error and leaves customer_profile bound to the serialized record of the
\* default customer.
C10_DefaultProfileBound ==
    (last.op = "before_agent" /\ ~HasProfile(last.state_in))
    => /\ last.result = Ok(NoneV)
       /\ Readable(state[last.session])
       /\ BoundId(state[last.session]) = S(DEFAULT_CUSTOMER_ID)

\* lowercase_value as the specification states it: the same structure with
\* every string leaf lowercased.
RECURSIVE Lowered(_)
Lowered(v) ==
    IF IsStr(v) THEN S(str_lower(v.s))
    ELSE IF IsList(v) THEN L([i \in DOMAIN v.l |-> Lowered(v.l[i])])
    ELSE IF IsDict(v) THEN D([k \in DOMAIN v.d |-> Lowered(v.d[k])])
    ELSE v

\* C7: lowercase_value applied to a mapping returns a mapping with the same
\* keys and nesting in which every string leaf is lowercased.
C7_MappingLowercased ==
    (fn.op = "lowercase_value" /\ IsDict(fn.arg))
    => /\ IsDict(fn.res)
       /\ DOMAIN fn.res.d = DOMAIN fn.arg.d
       /\ fn.res = Lowered(fn.arg)

\* The call that takes the window's count past the quota, arriving within
\* RATE_LIMIT_SECS of the window start.
EleventhInWindow ==
    /\ last.op = "rate_limit_callback"
    /\ "timer_start" \in DOMAIN last.state_in
    /\ last.state_in["request_count"] = N(RPM_QUOTA)
    /\ last.arrived - last.state_in["timer_start"].n <= RATE_LIMIT_SECS

\* C8 as stated: the 11th call of a window, arriving within 60 s of the
\* window start, returns at window start + 60 s, with the window start reset
\* and request_count = 1.
C8_BlocksUntilWindowEnd ==
    EleventhInWindow
    => /\ last.returned = last.state_in["timer_start"].n + RATE_LIMIT_SECS
       /\ state[last.session]["request_count"] = N(1)

\* C8 amended: that call returns at window start + 61 s, with the window
\* start set to the time the call arrived and request_count = 1.
C8_BlocksPastWindowEnd ==
    EleventhInWindow
    => /\ last.returned = last.state_in["timer_start"].n + RATE_LIMIT_SECS + 1
       /\ state[last.session]["timer_start"] = N(last.arrived)
       /\ state[last.session]["request_count"] = N(1)

C8_Witness ==
    /\ EleventhInWindow
    /\ last.arrived = last.state_in["timer_start"].n + 59
    /\ last.returned = last.arrived + 2
    /\ now = last.returned

----------------------------------------------------------------------------
(* Properties of the tool functions and of the argument conversion *)

DirectCall(tool) == fn.op = "call" /\ fn.tool = tool

\* The stored order the call names, before the call.
OrderRowsIn(call) == { o \in call.db_in.orders : o.id = call.args["order_id"] }

Returned(call, cls) ==
    /\ IsOk(call.response)
    /\ IsModel(call.response.ok)
    /\ call.response.ok.m = cls

\* C11: cancel_order on an existing order returns success=false, refund
\* amount 0 and a message naming the status when the stored status is shipped
\* or delivered, and success=true with refund amount equal to the stored
\* total when the stored status is processing.
C11_CancelByStatus ==
    DirectCall("cancel_order")
    => \A o \in OrderRowsIn(fn) :
          /\ o.status \in {S("shipped"), S("delivered")}
             => /\ Returned(fn, "OrderCancellationResult")
                /\ fn.response.ok.f.success = B(FALSE)
                /\ fn.response.ok.f.refund_amount = N(0)
                /\ Contains(fn.response.ok.f.message.s, o.status.s)
          /\ o.status = S("processing")
             => /\ Returned(fn, "OrderCancellationResult")
                /\ fn.response.ok.f.success = B(TRUE)
                /\ fn.response.ok.f.refund_amount = o.total

Converting == fn.op = "convert_args_to_pydantic"

\* Parameters of the call declared as a record type, given a mapping.
RecordParams ==
    { p \in DOMAIN fn.args \cap DOMAIN fn.tool.hints :
        fn.tool.hints[p].k = "model" /\ IsDict(fn.args[p]) }

Validates(cls, mapping) == IsOk(Construct(cls, mapping.d))

\* C12: convert_args_to_pydantic does not raise; a mapping given for a record
\* parameter that fails validation is in the result as it was given.
C12_InvalidMappingKept ==
    (Converting /\ fn.tool.has_func)
    => /\ DOMAIN fn.res = DOMAIN fn.args
       /\ \A p \in RecordParams :
             ~Validates(fn.tool.hints[p].cls, fn.args[p]) => fn.res[p] = fn.args[p]

C12_Witness ==
    /\ Converting
    /\ fn.tool.name = "add_address"
    /\ fn.args["address_data"] = BadAddress
    /\ fn.res["address_data"] = BadAddress

\* The record is of class cls and each field the mapping gives has the value
\* given, a None standing for for_none.
RecordOf(record, cls, mapping, for_none) ==
    /\ IsModel(record)
    /\ record.m = cls
    /\ \A k \in DOMAIN mapping.d \cap DOMAIN record.f :
          record.f[k] = IF IsNone(mapping.d[k]) THEN for_none ELSE mapping.d[k]

C14_ConvertIdempotent ==
    Converting
    => /\ fn.again = fn.res
       /\ \A p \in DOMAIN fn.args : IsModel(fn.args[p]) => fn.res[p] = fn.args[p]

C14_Witness ==
    /\ Converting
    /\ fn.tool.name = "add_address"
    /\ IsModel(fn.args["address_data"])
    /\ fn.res = fn.args
    /\ fn.again = fn.args

\* Parameters of the call declared as a list of records, given a list.
ListParams ==
    { p \in DOMAIN fn.args \cap DOMAIN fn.tool.hints :
        fn.tool.hints[p].k = "list" /\ IsList(fn.args[p]) }

\* C15: the elements of a list given for a list-of-records parameter are
\* converted one by one: a mapping that validates becomes a typed record,
\* any other element is passed through, whatever the other elements are.
C15_ElementsIndependent ==
    (Converting /\ fn.tool.has_func)
    => \A p \in ListParams :
          /\ IsList(fn.res[p])
          /\ DOMAIN fn.res[p].l = DOMAIN fn.args[p].l
          /\ \A i \in DOMAIN fn.args[p].l :
                IF IsDict(fn.args[p].l[i])
                   /\ Validates(fn.tool.hints[p].cls, fn.args[p].l[i])
                THEN RecordOf(fn.res[p].l[i], fn.tool.hints[p].cls,
                              fn.args[p].l[i], NoneV)
                ELSE fn.res[p].l[i] = fn.args[p].l[i]

\* C16: convert_args_to_pydantic returns its input when the tool declares no
\* record parameter or has no underlying function, and returns every argument
\* whose name is not a declared parameter as it was given.
C16_NothingToConvert ==
    Converting
    => /\ (\A p \in DOMAIN fn.tool.hints : fn.tool.hints[p].k = "plain")
          => fn.res = fn.args
       /\ ~fn.tool.has_func => fn.res = fn.args
       /\ DOMAIN fn.res = DOMAIN fn.args
       /\ \A p \in DOMAIN fn.args \ DOMAIN fn.tool.hints : fn.res[p] = fn.args[p]

C16_Witness ==
    /\ Converting
    /\ ~fn.tool.has_func
    /\ fn.args["address_data"] = GoodAddress
    /\ fn.res = fn.args

\* C17: a mutating tool that reports success has made its change visible to
\* later calls: after update_email returns True the stored email is the new
\* one, and after remove_payment_method returns success=true the payment
\* method is not among the customer's stored payment methods.
C17_SuccessIsVisible ==
    /\ (DirectCall("update_email") /\ fn.response = Ok(B(TRUE)))
       => \A c \in store.customers :
             c.id = fn.args["customer_id"] => c.email = fn.args["new_email"]
    /\ (DirectCall("remove_payment_method")
          /\ Returned(fn, "PaymentMethodResult")
          /\ fn.response.ok.f.success = B(TRUE))
       => \A m \in store.payment_methods :
             m.customer_id = fn.args["customer_id"]
                => m.id # fn.args["payment_method_id"]

OrderTools ==
    {"cancel_order", "modify_order_list", "change_delivery_address",
     "process_refund", "dispute_charge", "apply_promo_code"}

\* C18: cancel_order, modify_order_list, change_delivery_address,
\* process_refund, dispute_charge and apply_promo_code, called for an order
\* that does not exist, return a result record with success=false.
C18_MissingOrderIsFailure ==
    (fn.op = "call" /\ fn.tool \in OrderTools /\ OrderRowsIn(fn) = {})
    => /\ IsOk(fn.response)
       /\ IsModel(fn.response.ok)
       /\ fn.response.ok.f.success = B(FALSE)

\* C19: reset_password returns success=True whatever the email, also when no
\* customer that is not deleted has it.
C19_ResetAlwaysSucceeds ==
    DirectCall("reset_password")
    => /\ IsOk(fn.response)
       /\ fn.response.ok.d.success = B(TRUE)

Ids(customers) == { c.id : c \in customers }

\* The customers with the deleted flag of customer_id set.
Flagged(customers, customer_id) ==
    { IF c.id = customer_id THEN [c EXCEPT !.deleted = B(TRUE)] ELSE c :
        c \in customers }

\* C20: no tool removes a customer row: the store holds the customer ids it
\* started with; delete_account with confirmation=True changes nothing but
\* the deleted flag of that customer, and with confirmation=False returns
\* False and changes nothing.
C20_SoftDeleteOnly ==
    /\ Ids(store.customers) = Ids(SeedCustomers)
    /\ Cardinality(store.customers) = Cardinality(SeedCustomers)
    /\ (DirectCall("delete_account") /\ fn.args["confirmation"] = B(TRUE))
       => store = [fn.db_in EXCEPT
                     !.customers = Flagged(@, fn.args["customer_id"])]
    /\ (DirectCall("delete_account") /\ fn.args["confirmation"] = B(FALSE))
       => (fn.response = Ok(B(FALSE)) /\ store = fn.db_in)

C20_Witness ==
    /\ DirectCall("delete_account")
    /\ fn.args = [customer_id |-> S("cust-1"), confirmation |-> B(TRUE)]
    /\ fn.response = Ok(B(TRUE))
    /\ \E c \in fn.db_in.customers : c.id = S("cust-1") /\ c.deleted = B(FALSE)
    /\ \E c \in store.customers : c.id = S("cust-1") /\ c.deleted = B(TRUE)
    /\ \E c \in store.customers : c.id = S("cust-2") /\ c.deleted = B(TRUE)

----------------------------------------------------------------------------
(* Properties of the rate limiter, sessions and ownership *)

RateCalled == last.op = "rate_limit_callback"

\* C22: the first model call of a session sets timer_start to the time of
\* the call and request_count to 1 and returns at once; a later call that
\* brings the count to at most 10 adds exactly 1 to request_count, returns
\* at once and leaves timer_start as it was.
C22_CountsWithinQuota ==
    RateCalled
    => /\ "timer_start" \notin DOMAIN last.state_in
          => /\ state[last.session]["timer_start"] = N(last.arrived)
             /\ state[last.session]["request_count"] = N(1)
             /\ last.returned = last.arrived
       /\ ( /\ "timer_start" \in DOMAIN last.state_in
            /\ last.state_in["request_count"].n + 1 <= RPM_QUOTA )
          => /\ state[last.session]["request_count"].n
                  = last.state_in["request_count"].n + 1
             /\ state[last.session]["timer_start"] = last.state_in["timer_start"]
             /\ last.returned = last.arrived

C22_Witness ==
    /\ RateCalled
    /\ "timer_start" \in DOMAIN last.state_in
    /\ last.state_in["request_count"] = N(RPM_QUOTA - 1)
    /\ state[last.session]["request_count"] = N(RPM_QUOTA)
    /\ last.arrived > last.state_in["timer_start"].n + RATE_LIMIT_SECS

\* C30: after every rate_limit_callback call request_count is between 1 and
\* 10 and timer_start is not later than the current time.
C30_CountInRange ==
    \A s \in Sessions :
       "timer_start" \in DOMAIN state[s]
       => /\ state[s]["request_count"].n \in 1..RPM_QUOTA
          /\ state[s]["timer_start"].n <= now

C30_Witness ==
    /\ RateCalled
    /\ "timer_start" \in DOMAIN last.state_in
    /\ last.state_in["request_count"] = N(RPM_QUOTA)
    /\ state[last.session]["request_count"] = N(1)
    /\ state[last.session]["timer_start"].n < now

\* C24: in a session no more than 10 model calls proceed past
\* rate_limit_callback within any 60-second interval: of any RPM_QUOTA + 1
\* consecutive calls that proceeded, the last proceeded at least
\* RATE_LIMIT_SECS after the first.
C24_TenPerWindow ==
    ( fn.op = "proceeded" /\ Len(fn.times) = RPM_QUOTA + 1 )
    => fn.times[RPM_QUOTA + 1] - fn.times[1] >= RATE_LIMIT_SECS

\* Every item of the list names a product of the catalogue.
KnownProducts(items) ==
    \A i \in DOMAIN items : items[i].f.product_id.s \in DOMAIN SeedProducts

\* Sum over items[i..] of unit price times quantity.
RECURSIVE PricedFrom(_, _)
PricedFrom(items, i) ==
    IF i > Len(items) THEN 0
    ELSE SeedProducts[items[i].f.product_id.s] * items[i].f.quantity.n
         + PricedFrom(items, i + 1)

\* C23: modify_order_list on an existing order returns success=true exactly
\* when the stored status is processing and every updated item names an
\* existing product, and then updated_total is the sum over the items of
\* unit price times quantity; otherwise it returns success=false with
\* updated_total equal to the stored total of the order.
C23_ModifyByStatus ==
    DirectCall("modify_order_list")
    => \A o \in OrderRowsIn(fn) :
          /\ Returned(fn, "OrderModificationResult")
          /\ IF o.status = S("processing") /\ KnownProducts(fn.args["updated_items"].l)
             THEN /\ fn.response.ok.f.success = B(TRUE)
                  /\ fn.response.ok.f.updated_total
                       = N(PricedFrom(fn.args["updated_items"].l, 1))
             ELSE /\ fn.response.ok.f.success = B(FALSE)
                  /\ fn.response.ok.f.updated_total = o.total

C23_Witness ==
    /\ DirectCall("modify_order_list")
    /\ fn.args["order_id"] = S("ord-4")
    /\ Len(fn.args["updated_items"].l) = 2
    /\ Returned(fn, "OrderModificationResult")
    /\ fn.response.ok.f.success = B(TRUE)
    /\ fn.response.ok.f.updated_total = N(2 * 3299 + 1599)

\* C27: cancel_order and modify_order_list leave the store as it was, and
\* cancel_order on an order whose stored status is processing returns, each
\* time it is called, success=true with refund amount equal to the stored
\* total.
C27_CancelRepeatable ==
    /\ (DirectCall("cancel_order") \/ DirectCall("modify_order_list"))
       => store = fn.db_in
    /\ DirectCall("cancel_order")
       => \A o \in OrderRowsIn(fn) :
             o.status = S("processing")
             => /\ Returned(fn, "OrderCancellationResult")
                /\ fn.response.ok.f.success = B(TRUE)
                /\ fn.response.ok.f.refund_amount = o.total
                /\ \E after \in store.orders : after = o

\* The call names a customer whose row was flagged deleted before the call.
OnDeleted(call) ==
    /\ "customer_id" \in DOMAIN call.args
    /\ \E c \in call.db_in.customers :
          c.id = call.args["customer_id"] /\ c.deleted = B(TRUE)

\* C28: a customer-scoped tool called for a customer whose account was
\* deleted treats the customer as absent: update_email reports failure,
\* list_addresses and get_payment_methods return empty lists, delete_address
\* removes nothing, and the customer's rows are left as they were.
C28_DeletedIsAbsent ==
    (fn.op = "call" /\ OnDeleted(fn))
    => /\ fn.tool = "update_email" => fn.response = Ok(B(FALSE))
       /\ fn.tool \in {"list_addresses", "get_payment_methods"}
          => fn.response = Ok(L(<<>>))
       /\ fn.tool = "delete_address" => fn.response = Ok(B(FALSE))
       /\ store.addresses = fn.db_in.addresses
       /\ store.payment_methods = fn.db_in.payment_methods

\* C29: process_refund on an existing order reports an amount between zero
\* and the stored total of the order, and exactly the stored total when no
\* amount is given.
C29_RefundWithinTotal ==
    DirectCall("process_refund")
    => \A o \in OrderRowsIn(fn) :
          /\ Returned(fn, "RefundResult")
          /\ fn.response.ok.f.amount.n >= 0
          /\ fn.response.ok.f.amount.n <= o.total.n
          /\ IsNone(fn.args["amount"]) => fn.response.ok.f.amount = o.total

\* The rows of the store that customer_id does not own.
RowsOfOthers(db, customer_id) ==
    [customers |-> { c \in db.customers : c.id # customer_id },
     addresses |-> { a \in db.addresses : a.customer_id # customer_id },
     payment_methods |-> { m \in db.payment_methods : m.customer_id # customer_id },
     orders |-> { o \in db.orders : o.customer_id # customer_id }]

\* A tool call that passed before_tool is running.
Running == pending # Idle

\* C25: a tool call that passed before_tool in a session bound to customer C
\* leaves the customer records, addresses, payment methods and orders of
\* every other customer as they were.
C25_OthersUntouched ==
    [][ (Running /\ Readable(state[pending.session]))
        => RowsOfOthers(store', BoundId(state[pending.session]))
             = RowsOfOthers(store, BoundId(state[pending.session])) ]_vars

C25_Witness ==
    /\ last.op = "tool"
    /\ last.session = "s1"
    /\ last.tool = "update_address"
    /\ last.args["address_id"] = S("addr-2")
    /\ last.response = Ok(B(FALSE))
    /\ \E a \in store.addresses : a.id = S("addr-1") /\ a.line1 = S("12 Main St")
    /\ \E c \in store.customers : c.id = S("cust-1") /\ c.deleted = B(TRUE)
    /\ RowsOfOthers(store, S("cust-1")) = RowsOfOthers(SeedStore, S("cust-1"))

Counters(st) ==
    IF "timer_start" \in DOMAIN st
    THEN <<st["timer_start"], st["request_count"]>>
    ELSE <<>>

\* C21: a model call, agent start or tool call of one session changes
\* neither the rate-limit counters nor the customer profile of any other
\* session.
C21_SessionsApart ==
    [][ \A s \in Sessions :
           s # last'.session
           => /\ Counters(state'[s]) = Counters(state[s])
              /\ state'[s]["customer_profile"] = state[s]["customer_profile"] ]_vars

C21_Witness ==
    /\ RateCalled
    /\ last.session = "s1"
    /\ last.returned > last.arrived
    /\ state["s1"]["request_count"] = N(1)
    /\ "timer_start" \in DOMAIN state["s2"]
    /\ state["s2"]["request_count"] = N(RPM_QUOTA)
    /\ state["s2"]["timer_start"] # state["s1"]["timer_start"]
    /\ BoundId(state["s1"]) # BoundId(state["s2"])

\* C26: a customer profile bound in a session stays as it is through every
\* before_agent, before_tool, after_tool and rate_limit_callback call, also
\* after the customer was soft-deleted in the store.
C26_ProfileKept ==
    [][ \A s \in Sessions :
           HasProfile(state[s])
           => /\ HasProfile(state'[s])
              /\ state'[s]["customer_profile"] = state[s]["customer_profile"] ]_vars

C26_Witness ==
    /\ last.op \in {"before_agent", "rate_limit_callback"}
    /\ last.session = "s1"
    /\ \E c \in store.customers : c.id = S("cust-1") /\ c.deleted = B(TRUE)
    /\ "timer_start" \in DOMAIN state["s1"]
    /\ Readable(state["s1"])
    /\ BoundId(state["s1"]) = S("cust-1")

====
